---- MODULE Spec2Model ----
(***************************************************************************)
(* Model of src/app.py: convert_tcx_to_gpx (one conversion, record by      *)
(* record), get_points, and the upload handler server._ that converts a    *)
(* batch of files and publishes one result map.                            *)
(*                                                                         *)
(* A document is the text handed to convert_tcx_to_gpx.  It is modelled by *)
(* whether ET.fromstring accepts it (wf) and by the Trackpoint elements it *)
(* holds in document order (recs).  Each Trackpoint holds, for each of the *)
(* four elements the code looks up, either None (find returned None) or    *)
(* the element's text.  Floats are integers in tenths of a degree,         *)
(* datetimes are seconds plus the tzinfo flag, timedeltas are seconds.     *)
(***************************************************************************)
EXTENDS Integers, Sequences, FiniteSets, TLC

\* Bounds of the model: the elements (Trackpoints and their fields) of an input
\* document, and the files of one upload.
MaxElems == 6
MaxFiles == 2

\* len(CONTRASTING_COLORS)
NumColors == 10

\* None as the value of a variable that may hold an object.
None == [kind |-> "None"]

\* What find() yields when the element is missing; otherwise the element's text.
NoElement == "<none>"

\* The locals' marker that no statement of the iteration has raised.
NoException == "no exception"

\* datetime.datetime.fromisoformat on the texts it accepts: seconds after
\* 2024-01-01T00:00:00 and whether the text carried a UTC offset (aware).
IsoValue ==
    ("2024-01-01T00:00:01" :> [sec |-> 1, aware |-> FALSE])
 @@ ("2024-01-01T00:00:03" :> [sec |-> 3, aware |-> FALSE])
 @@ ("2024-01-01T00:00:02+00:00" :> [sec |-> 2, aware |-> TRUE])

\* float() on the texts it accepts, in tenths of a degree.
FloatValue == ("1.0" :> 10) @@ ("2.0" :> 20) @@ ("3.0" :> 30) @@ ("4.0" :> 40)

\* int() on the texts it accepts: decimal integer literals.
IntValue == ("100" :> 100) @@ ("110" :> 110)

\* Texts a field may carry.  The last text of each set is one its parser rejects.
TimeTexts == DOMAIN IsoValue \cup {"noon"}
LatTexts == {"1.0", "3.0", "abc"}
LonTexts == {"2.0", "4.0", "east"}
HrTexts == DOMAIN IntValue \cup {"72.5"}

fromisoformat_raises(text) == text \notin DOMAIN IsoValue
fromisoformat(text) == IsoValue[text]

float_raises(text) == text \notin DOMAIN FloatValue
float(text) == FloatValue[text]

int_raises(text) == text \notin DOMAIN IntValue
int(text) == IntValue[text]

\* One Trackpoint element as the four find() calls see it.
Trackpoints ==
    [time : {NoElement} \cup TimeTexts,
     lat  : {NoElement} \cup LatTexts,
     lon  : {NoElement} \cup LonTexts,
     hr   : {NoElement} \cup HrTexts]

\* Number of elements a Trackpoint adds to a document: itself and its fields.
ElemCount(r) ==
    1 + (IF r.time = NoElement THEN 0 ELSE 1) + (IF r.lat = NoElement THEN 0 ELSE 1)
  + (IF r.lon = NoElement THEN 0 ELSE 1) + (IF r.hr = NoElement THEN 0 ELSE 1)

VARIABLES
    tcx_content,   \* the argument of convert_tcx_to_gpx
    pc,            \* position in convert_tcx_to_gpx
    idx,           \* number of Trackpoints the for loop has processed
    segment,       \* segment.points
    heart_rates,
    start_time,
    end_time,
    result,        \* None while running, then the return value or the exception
    files,         \* input.tcx_files()
    i,             \* index of the file the handler's loop is at
    processed_data,
    tcx_data,      \* the reactive value
    hpc            \* position in the handler

convVars == <<tcx_content, pc, idx, segment, heart_rates, start_time, end_time, result>>
batchVars == <<files, i, processed_data, tcx_data, hpc>>
vars == <<tcx_content, pc, idx, segment, heart_rates, start_time, end_time, result,
          files, i, processed_data, tcx_data, hpc>>

\* The locals of the for loop, with the exception a statement raised, if any.
Locals(pts, hrs, st, et, exc) ==
    [segment |-> pts, heart_rates |-> hrs, start_time |-> st, end_time |-> et,
     raised |-> exc]

\* ReadTime keeping the latest timestamp in end_time instead of the last one.
ReadTime_RunningMax(s, r) ==
    IF r.time = NoElement THEN s
    ELSE IF fromisoformat_raises(r.time) THEN [s EXCEPT !.raised = "FieldFormatError"]
    ELSE LET current_time == fromisoformat(r.time) IN
         [s EXCEPT !.start_time = IF s.start_time = None THEN current_time
                                  ELSE s.start_time,
                   !.end_time = IF s.end_time # None /\ s.end_time.sec > current_time.sec
                                THEN s.end_time ELSE current_time]

\* ReadTime without the "if start_time is None" test.
ReadTime_OverwritesStart(s, r) ==
    IF r.time = NoElement THEN s
    ELSE IF fromisoformat_raises(r.time) THEN [s EXCEPT !.raised = "FieldFormatError"]
    ELSE LET current_time == fromisoformat(r.time) IN
         [s EXCEPT !.start_time = current_time, !.end_time = current_time]

\* Lines 173-177: the time field.
ReadTime(s, r) ==
    IF r.time = NoElement THEN s
    ELSE IF fromisoformat_raises(r.time) THEN [s EXCEPT !.raised = "FieldFormatError"]
    ELSE LET current_time == fromisoformat(r.time) IN
         [s EXCEPT !.start_time = IF s.start_time = None THEN current_time
                                  ELSE s.start_time,
                   !.end_time = current_time]

\* ReadPosition dropping a position whose text does not parse.
ReadPosition_SkipsBad(s, r) ==
    IF r.lat # NoElement /\ r.lon # NoElement
       /\ ~float_raises(r.lat) /\ ~float_raises(r.lon)
    THEN [s EXCEPT !.segment =
              Append(s.segment, [latitude |-> float(r.lat),
                                 longitude |-> float(r.lon)])]
    ELSE s

\* Lines 179-184: the position, read only when both elements were found.
ReadPosition(s, r) ==
    IF r.lat # NoElement /\ r.lon # NoElement
    THEN IF float_raises(r.lat) \/ float_raises(r.lon)
         THEN [s EXCEPT !.raised = "FieldFormatError"]
         ELSE [s EXCEPT !.segment =
                   Append(s.segment, [latitude |-> float(r.lat),
                                      longitude |-> float(r.lon)])]
    ELSE s

\* ReadHeartRate nested under the position test.
ReadHeartRate_NeedsPosition(s, r) ==
    IF r.hr = NoElement \/ r.lat = NoElement \/ r.lon = NoElement THEN s
    ELSE IF int_raises(r.hr) THEN [s EXCEPT !.raised = "FieldFormatError"]
    ELSE [s EXCEPT !.heart_rates = Append(s.heart_rates, int(r.hr))]

\* Lines 186-187: the heart rate.
ReadHeartRate(s, r) ==
    IF r.hr = NoElement THEN s
    ELSE IF int_raises(r.hr) THEN [s EXCEPT !.raised = "FieldFormatError"]
    ELSE [s EXCEPT !.heart_rates = Append(s.heart_rates, int(r.hr))]

\* ProcessTrackpoint skipping a Trackpoint that has no time field.
ProcessTrackpoint_TimeRequired(s, r) ==
    IF r.time = NoElement THEN s
    ELSE LET s1 == ReadTime(s, r) IN
         IF s1.raised # NoException THEN s1
         ELSE LET s2 == ReadPosition(s1, r) IN
              IF s2.raised # NoException THEN s2
              ELSE ReadHeartRate(s2, r)

\* Lines 168-187: one iteration of the for loop.  A raise ends the iteration.
ProcessTrackpoint(s, r) ==
    LET s1 == ReadTime(s, r) IN
    IF s1.raised # NoException THEN s1
    ELSE LET s2 == ReadPosition(s1, r) IN
         IF s2.raised # NoException THEN s2
         ELSE ReadHeartRate(s2, r)

\* Subtract with its operands exchanged.
Subtract_Reversed(et, st) == st.sec - et.sec

\* Line 192, end_time - start_time: a naive and an aware datetime do not
\* subtract (TypeError); otherwise the difference in seconds.
Subtract_raises(et, st) == et.aware # st.aware

Subtract(et, st) == et.sec - st.sec

\* Lines 155-159: one track holding one segment.
GPX(pts) == [tracks |-> << [segments |-> << [points |-> pts] >>] >>]

Raise(e) == [kind |-> "raise", error |-> e]

\* Finish without the test for an empty segment.
Finish_NoEmptyCheck(s) ==
    IF s.start_time # None /\ s.end_time # None
    THEN IF Subtract_raises(s.end_time, s.start_time) THEN Raise("TypeError")
         ELSE [kind |-> "return", gpx |-> GPX(s.segment),
               heart_rates |-> s.heart_rates, start_time |-> s.start_time,
               duration |-> Subtract(s.end_time, s.start_time)]
    ELSE [kind |-> "return", gpx |-> GPX(s.segment),
          heart_rates |-> s.heart_rates, start_time |-> s.start_time,
          duration |-> 0]

\* Lines 189-193: what the function does after the loop.
Finish(s) ==
    IF s.segment = << >> THEN Raise("NoGpsDataError")
    ELSE IF s.start_time # None /\ s.end_time # None
    THEN IF Subtract_raises(s.end_time, s.start_time) THEN Raise("TypeError")
         ELSE [kind |-> "return", gpx |-> GPX(s.segment),
               heart_rates |-> s.heart_rates, start_time |-> s.start_time,
               duration |-> Subtract(s.end_time, s.start_time)]
    ELSE [kind |-> "return", gpx |-> GPX(s.segment),
          heart_rates |-> s.heart_rates, start_time |-> s.start_time,
          duration |-> 0]

\* Lines 195-201.
RECURSIVE FlattenSegments(_)
FlattenSegments(segs) ==
    IF segs = << >> THEN << >>
    ELSE [k \in 1..Len(Head(segs).points) |->
             <<Head(segs).points[k].latitude, Head(segs).points[k].longitude>>]
         \o FlattenSegments(Tail(segs))

RECURSIVE FlattenTracks(_)
FlattenTracks(trks) ==
    IF trks = << >> THEN << >>
    ELSE FlattenSegments(Head(trks).segments) \o FlattenTracks(Tail(trks))

get_points(gpx) == FlattenTracks(gpx.tracks)

----------------------------------------------------------------------------
\* convert_tcx_to_gpx as a state machine.

\* The input text: well-formed markup or not, holding the Trackpoints recs
\* followed by any further ones that fit in budget elements.
RECURSIVE ChooseDocument(_, _)
ChooseDocument(recs, budget) ==
    \/ tcx_content \in [wf : BOOLEAN, recs : {recs}]
    \/ \E r \in {t \in Trackpoints : ElemCount(t) <= budget} :
           ChooseDocument(Append(recs, r), budget - ElemCount(r))

Init ==
    /\ ChooseDocument(<< >>, MaxElems)
    /\ pc = "parse"
    /\ idx = 0
    /\ segment = << >>
    /\ heart_rates = << >>
    /\ start_time = None
    /\ end_time = None
    /\ result = None
    /\ files = None
    /\ i = 0
    /\ processed_data = << >>
    /\ tcx_data = << >>
    /\ hpc = "idle"

\* Lines 150-153: ET.fromstring rejects the text.
ParseFails ==
    /\ pc = "parse"
    /\ ~tcx_content.wf
    /\ result' = Raise("ParseError")
    /\ pc' = "done"
    /\ UNCHANGED <<tcx_content, idx, segment, heart_rates, start_time, end_time>>
    /\ UNCHANGED batchVars

\* ParseSucceeds with the ParseError swallowed: the loop runs on any text.
ParseSucceeds_Unchecked ==
    /\ pc = "parse"
    /\ pc' = "loop"
    /\ UNCHANGED <<tcx_content, idx, segment, heart_rates, start_time, end_time, result>>
    /\ UNCHANGED batchVars

\* Lines 150-165: the text parses; the containers and the accumulators are set up.
ParseSucceeds ==
    /\ pc = "parse"
    /\ tcx_content.wf
    /\ pc' = "loop"
    /\ UNCHANGED <<tcx_content, idx, segment, heart_rates, start_time, end_time, result>>
    /\ UNCHANGED batchVars

\* Lines 167-187: the next Trackpoint.
LoopBody ==
    /\ pc = "loop"
    /\ idx < Len(tcx_content.recs)
    /\ LET s == ProcessTrackpoint(
                    Locals(segment, heart_rates, start_time, end_time, NoException),
                    tcx_content.recs[idx + 1]) IN
       /\ segment' = s.segment
       /\ heart_rates' = s.heart_rates
       /\ start_time' = s.start_time
       /\ end_time' = s.end_time
       /\ IF s.raised # NoException
          THEN /\ result' = Raise(s.raised)
               /\ pc' = "done"
               /\ idx' = idx
          ELSE /\ result' = result
               /\ pc' = pc
               /\ idx' = idx + 1
    /\ UNCHANGED tcx_content
    /\ UNCHANGED batchVars

\* Lines 189-193: the loop is over.
LoopExit ==
    /\ pc = "loop"
    /\ idx = Len(tcx_content.recs)
    /\ result' = Finish(Locals(segment, heart_rates, start_time, end_time, NoException))
    /\ pc' = "done"
    /\ UNCHANGED <<tcx_content, idx, segment, heart_rates, start_time, end_time>>
    /\ UNCHANGED batchVars

Next == ParseFails \/ ParseSucceeds \/ LoopBody \/ LoopExit

Spec == Init /\ [][Next]_vars

----------------------------------------------------------------------------
\* convert_tcx_to_gpx as a function of its argument, for the upload handler.

\* Lines 167-187: the for loop over the Trackpoints, left at the first raise.
RECURSIVE RunLoop(_, _)
RunLoop(s, recs) ==
    IF recs = << >> THEN s
    ELSE LET s1 == ProcessTrackpoint(s, Head(recs)) IN
         IF s1.raised # NoException THEN s1 ELSE RunLoop(s1, Tail(recs))

\* Lines 146-193.
convert_tcx_to_gpx(content) ==
    IF ~content.wf THEN Raise("ParseError")
    ELSE LET s == RunLoop(Locals(<< >>, << >>, None, None, NoException), content.recs) IN
         IF s.raised # NoException THEN Raise(s.raised) ELSE Finish(s)

----------------------------------------------------------------------------
\* The upload handler server._ (lines 33-61).

\* A file whose open() or read() raises.
Unreadable == [kind |-> "unreadable"]

\* Contents of uploaded files: a track with three Trackpoints, a track with
\* one, a recording without positions, a heart rate int() rejects, text that
\* is not markup, and a file that cannot be read.
FileContents ==
    { [wf |-> TRUE,
       recs |-> << [time |-> "2024-01-01T00:00:01", lat |-> "1.0", lon |-> "2.0",
                    hr |-> "100"],
                   [time |-> "2024-01-01T00:00:03", lat |-> NoElement,
                    lon |-> NoElement, hr |-> "110"],
                   [time |-> NoElement, lat |-> "3.0", lon |-> "4.0",
                    hr |-> NoElement] >>],
      [wf |-> TRUE,
       recs |-> << [time |-> NoElement, lat |-> "3.0", lon |-> "4.0",
                    hr |-> NoElement] >>],
      [wf |-> TRUE,
       recs |-> << [time |-> "2024-01-01T00:00:01", lat |-> NoElement,
                    lon |-> NoElement, hr |-> "100"] >>],
      [wf |-> TRUE,
       recs |-> << [time |-> "2024-01-01T00:00:01", lat |-> "1.0", lon |-> "2.0",
                    hr |-> "72.5"] >>],
      [wf |-> FALSE, recs |-> << >>],
      Unreadable }

FileNames == {"a.tcx", "b.tcx"}

\* The entries of input.tcx_files(): the client's file name and what datapath holds.
FileInfos == [name : FileNames, content : FileContents]

\* max(heart_rates)
RECURSIVE max(_)
max(hrs) ==
    IF Len(hrs) = 1 THEN Head(hrs)
    ELSE LET m == max(Tail(hrs)) IN IF Head(hrs) >= m THEN Head(hrs) ELSE m

\* processed_data[name] = entry
SetItem(d, name, entry) ==
    [n \in DOMAIN d \cup {name} |-> IF n = name THEN entry ELSE d[n]]

\* Lines 44-59: the try statement for the file at index k (from 0).
ProcessFile(d, k, file) ==
    IF file.content = Unreadable
    THEN SetItem(d, file.name, [error |-> "Unreadable"])
    ELSE LET r == convert_tcx_to_gpx(file.content) IN
         IF r.kind = "raise"
         THEN SetItem(d, file.name, [error |-> r.error])
         ELSE SetItem(d, file.name,
                      [gpx |-> r.gpx, heart_rates |-> r.heart_rates,
                       start_time |-> r.start_time, duration |-> r.duration,
                       max_hr |-> IF r.heart_rates # << >> THEN max(r.heart_rates) ELSE 0,
                       color |-> k % NumColors])

\* The uploads: nothing (None), or up to MaxFiles files.
RECURSIVE ChooseFiles(_, _)
ChooseFiles(list, budget) ==
    \/ files = [list |-> list]
    \/ /\ budget > 0
       /\ \E f \in FileInfos : ChooseFiles(Append(list, f), budget - 1)

InitBatch ==
    /\ files = None \/ ChooseFiles(<< >>, MaxFiles)
    /\ i = 0
    /\ processed_data = << >>
    /\ tcx_data = << >>
    /\ hpc = "start"
    /\ tcx_content = [wf |-> FALSE, recs |-> << >>]
    /\ pc = "idle"
    /\ idx = 0
    /\ segment = << >>
    /\ heart_rates = << >>
    /\ start_time = None
    /\ end_time = None
    /\ result = None

\* Lines 36-39: no files.
NoFiles ==
    /\ hpc = "start"
    /\ files = None
    /\ tcx_data' = << >>
    /\ hpc' = "done"
    /\ UNCHANGED <<files, i, processed_data>>
    /\ UNCHANGED convVars

\* Lines 36-41: the handler starts on a list of files.
StartBatch ==
    /\ hpc = "start"
    /\ files # None
    /\ processed_data' = << >>
    /\ i' = 0
    /\ hpc' = "loop"
    /\ UNCHANGED <<files, tcx_data>>
    /\ UNCHANGED convVars

\* Lines 42-59: one iteration of the loop over the files.
NextFile ==
    /\ hpc = "loop"
    /\ i < Len(files.list)
    /\ processed_data' = ProcessFile(processed_data, i, files.list[i + 1])
    /\ i' = i + 1
    /\ UNCHANGED <<files, tcx_data, hpc>>
    /\ UNCHANGED convVars

\* Line 61: the result map is published.
Publish ==
    /\ hpc = "loop"
    /\ i = Len(files.list)
    /\ tcx_data' = processed_data
    /\ hpc' = "done"
    /\ UNCHANGED <<files, i, processed_data>>
    /\ UNCHANGED convVars

NextBatch == NoFiles \/ StartBatch \/ NextFile \/ Publish

SpecBatch == InitBatch /\ [][NextBatch]_vars

----------------------------------------------------------------------------
\* Vocabulary of the properties.

recs == tcx_content.recs

HasTime(r) == r.time # NoElement
HasPosition(r) == r.lat # NoElement /\ r.lon # NoElement
HasHeartRate(r) == r.hr # NoElement

\* Every field the Trackpoint holds has a text its parser accepts.
FieldsParse(r) ==
    /\ r.time # NoElement => ~fromisoformat_raises(r.time)
    /\ r.lat # NoElement => ~float_raises(r.lat)
    /\ r.lon # NoElement => ~float_raises(r.lon)
    /\ r.hr # NoElement => ~int_raises(r.hr)

\* A field the loop body parses has a text its parser rejects.
ParsedFieldBad(r) ==
    \/ HasTime(r) /\ fromisoformat_raises(r.time)
    \/ HasPosition(r) /\ (float_raises(r.lat) \/ float_raises(r.lon))
    \/ HasHeartRate(r) /\ int_raises(r.hr)

\* A well-formed document: the markup parses and the fields that are present
\* hold texts of their types (spec section 4.2: "the source format is assumed
\* well-formed when fields are present").
WellFormed ==
    /\ tcx_content.wf
    /\ \A k \in 1..Len(recs) : FieldsParse(recs[k])

Finished == pc = "done"
Succeeded == pc = "done" /\ result.kind = "return"

\* The (latitude, longitude) pairs of the Trackpoints that carry a position,
\* in document order.
RECURSIVE PositionsOf(_)
PositionsOf(rs) ==
    IF rs = << >> THEN << >>
    ELSE (IF HasPosition(Head(rs))
          THEN << <<float(Head(rs).lat), float(Head(rs).lon)>> >>
          ELSE << >>) \o PositionsOf(Tail(rs))

\* The heart-rate values of the Trackpoints that carry one, in document order.
RECURSIVE HeartRatesOf(_)
HeartRatesOf(rs) ==
    IF rs = << >> THEN << >>
    ELSE (IF HasHeartRate(Head(rs)) THEN <<int(Head(rs).hr)>> ELSE << >>)
         \o HeartRatesOf(Tail(rs))

\* Indices of the Trackpoints with a time field among the first n.
TimeIdx(n) == {k \in 1..n : HasTime(recs[k])}
FirstOf(S) == CHOOSE k \in S : \A j \in S : k <= j
LastOf(S) == CHOOSE k \in S : \A j \in S : k >= j
TimeAt(k) == fromisoformat(recs[k].time)

----------------------------------------------------------------------------
\* C1: for every well-formed document in which at least one Trackpoint carries
\* a position, the conversion returns, and get_points of the returned track is
\* the sequence of (latitude, longitude) pairs of the Trackpoints that carry a
\* position, in document order.
C1_SucceedsWithPoints ==
    (Finished /\ WellFormed /\ \E k \in 1..Len(recs) : HasPosition(recs[k]))
        => /\ result.kind = "return"
           /\ get_points(result.gpx) = PositionsOf(recs)

\* C2: for every well-formed document in which no Trackpoint carries a
\* position, the conversion raises the no-GPS-data error and returns nothing,
\* whatever time and heart-rate fields the Trackpoints carry.
C2_NoGpsData ==
    (Finished /\ WellFormed /\ \A k \in 1..Len(recs) : ~HasPosition(recs[k]))
        => result = Raise("NoGpsDataError")

\* A recording with two Trackpoints, times and a heart rate but no position,
\* has been refused.
C2_Witness ==
    /\ Finished /\ WellFormed /\ Len(recs) = 2
    /\ \A k \in 1..Len(recs) : ~HasPosition(recs[k]) /\ HasTime(recs[k])
    /\ HasHeartRate(recs[1])
    /\ result = Raise("NoGpsDataError")

\* C3: for a text that is not well-formed markup the conversion raises the
\* parse error before any Trackpoint is processed: no point, heart rate or
\* timestamp is ever accumulated and nothing is returned.
C3_ParseError ==
    ~tcx_content.wf =>
        /\ idx = 0 /\ segment = << >> /\ heart_rates = << >>
        /\ start_time = None /\ end_time = None
        /\ pc \in {"parse", "done"}
        /\ pc = "parse" => result = None
        /\ pc = "done" => result = Raise("ParseError")

\* A text that is cut short after two Trackpoints has been refused.
C3_Witness ==
    /\ Finished /\ ~tcx_content.wf /\ Len(recs) = 2
    /\ HasPosition(recs[1])
    /\ result = Raise("ParseError")

\* C4: on a successful conversion the returned heart rates are the values of
\* the Trackpoints that carry a heart rate, in document order, whether or not
\* those Trackpoints carry a position or a time.
C4_HeartRates ==
    Succeeded =>
        /\ result.heart_rates = HeartRatesOf(recs)
        /\ Len(result.heart_rates)
               = Cardinality({k \in 1..Len(recs) : HasHeartRate(recs[k])})

\* A conversion has returned two heart rates, one of them from a Trackpoint
\* with neither position nor time, and one point.
C4_Witness ==
    /\ Succeeded
    /\ Len(result.heart_rates) = 2
    /\ Len(get_points(result.gpx)) = 1
    /\ \E k \in 1..Len(recs) :
           HasHeartRate(recs[k]) /\ ~HasPosition(recs[k]) /\ ~HasTime(recs[k])

\* C5: on a successful conversion the duration is the timestamp of the last
\* Trackpoint, in document order, that has a time field minus that of the first
\* one, and zero when no Trackpoint has a time field.
C5_Duration ==
    Succeeded =>
        LET T == TimeIdx(Len(recs)) IN
        result.duration = IF T = {} THEN 0
                          ELSE TimeAt(LastOf(T)).sec - TimeAt(FirstOf(T)).sec

\* A conversion has returned the duration of timestamps that descend in
\* document order: last minus first, not latest minus earliest.
C5_Witness ==
    /\ Succeeded
    /\ Cardinality(TimeIdx(Len(recs))) = 2
    /\ result.duration = -2

\* C6 as claimed: whenever a conversion succeeds and start_time and end_time
\* exist, the duration is non-negative, for every order of the timestamps.
C6_NonNegative ==
    (Succeeded /\ start_time # None /\ end_time # None) => result.duration >= 0

\* C6 as amended: whenever a conversion succeeds and start_time and end_time
\* exist, the duration is non-negative exactly when the last Trackpoint with a
\* time field is not earlier than the first one.
C6_NonNegativeIfOrdered ==
    (Succeeded /\ start_time # None /\ end_time # None) =>
        LET T == TimeIdx(Len(recs)) IN
        /\ T # {}
        /\ result.duration >= 0 <=> TimeAt(LastOf(T)).sec >= TimeAt(FirstOf(T)).sec

\* A conversion of timestamps that ascend in document order has returned a
\* positive duration.
C6_Witness ==
    /\ Succeeded /\ start_time # None /\ end_time # None
    /\ TimeAt(LastOf(TimeIdx(Len(recs)))).sec > TimeAt(FirstOf(TimeIdx(Len(recs)))).sec
    /\ result.duration > 0

\* C7: in an iteration that does not raise, the Trackpoint sets the timestamps
\* iff it has a time field, adds a point iff it has a position and adds a heart
\* rate iff it has a heart-rate value, whichever of the other fields it lacks.
C7_Step ==
    (pc = "loop" /\ idx' = idx + 1) =>
        LET r == recs[idx + 1] IN
        /\ IF HasTime(r)
           THEN end_time' = fromisoformat(r.time) /\ start_time' # None
           ELSE start_time' = start_time /\ end_time' = end_time
        /\ IF HasPosition(r)
           THEN segment' = Append(segment, [latitude |-> float(r.lat),
                                            longitude |-> float(r.lon)])
           ELSE segment' = segment
        /\ IF HasHeartRate(r)
           THEN heart_rates' = Append(heart_rates, int(r.hr))
           ELSE heart_rates' = heart_rates

C7_Independent == [][C7_Step]_vars

\* The loop has taken a heart rate from a Trackpoint that has nothing else,
\* after a point from a Trackpoint that has only a position.
C7_Witness ==
    /\ pc = "loop" /\ idx = 2
    /\ HasPosition(recs[1]) /\ ~HasTime(recs[1]) /\ ~HasHeartRate(recs[1])
    /\ HasHeartRate(recs[2]) /\ ~HasTime(recs[2]) /\ ~HasPosition(recs[2])
    /\ Len(segment) = 1 /\ Len(heart_rates) = 1 /\ start_time = None

\* C8 as claimed: if any Trackpoint has a present time, latitude, longitude or
\* heart-rate field whose text does not parse, the conversion raises a
\* field-format error and returns nothing.
C8_AnyBadField ==
    (Finished /\ tcx_content.wf /\ \E k \in 1..Len(recs) : ~FieldsParse(recs[k]))
        => result = Raise("FieldFormatError")

\* C8 as amended: the conversion raises a field-format error and returns
\* nothing exactly when some Trackpoint has a time or heart-rate field, or a
\* latitude or longitude field next to the other one, whose text does not parse.
C8_ParsedBadField ==
    (Finished /\ tcx_content.wf) =>
        (result = Raise("FieldFormatError")
            <=> \E k \in 1..Len(recs) : ParsedFieldBad(recs[k]))

\* A conversion that had accumulated a point was abandoned at a later
\* Trackpoint's heart rate.
C8_Witness ==
    /\ Finished /\ tcx_content.wf /\ Len(recs) = 2
    /\ HasPosition(recs[1]) /\ FieldsParse(recs[1])
    /\ HasHeartRate(recs[2]) /\ int_raises(recs[2].hr)
    /\ Len(segment) = 1
    /\ result = Raise("FieldFormatError")

\* C9: after the handler's loop every uploaded file has its own entry in the
\* published map: an error entry if its conversion failed, and otherwise an
\* entry with the data of its own conversion, whatever happened to other files.
C9_Isolated ==
    (hpc = "done" /\ files # None) =>
        /\ i = Len(files.list)
        /\ Cardinality(DOMAIN tcx_data) = Len(files.list)
        /\ \A k \in 1..Len(files.list) :
              LET f == files.list[k] IN
              /\ f.name \in DOMAIN tcx_data
              /\ IF f.content = Unreadable
                    \/ convert_tcx_to_gpx(f.content).kind = "raise"
                 THEN "error" \in DOMAIN tcx_data[f.name]
                 ELSE /\ "error" \notin DOMAIN tcx_data[f.name]
                      /\ tcx_data[f.name].gpx = convert_tcx_to_gpx(f.content).gpx
                      /\ tcx_data[f.name].heart_rates
                             = convert_tcx_to_gpx(f.content).heart_rates

\* C10: start_time is set by the first Trackpoint that has a time field and is
\* never changed afterwards; end_time is overwritten by every Trackpoint that
\* has a time field, so after each iteration it is the timestamp of the most
\* recently processed one; a Trackpoint without a time field changes neither.
C10_Step ==
    /\ start_time # None => start_time' = start_time
    /\ (pc = "loop" /\ idx' = idx + 1) =>
          LET T == TimeIdx(idx + 1) IN
          /\ ~HasTime(recs[idx + 1]) => start_time' = start_time /\ end_time' = end_time
          /\ HasTime(recs[idx + 1]) => end_time' = TimeAt(idx + 1)
          /\ IF T = {} THEN start_time' = None /\ end_time' = None
             ELSE start_time' = TimeAt(FirstOf(T)) /\ end_time' = TimeAt(LastOf(T))

C10_FirstAndLatest == [][C10_Step]_vars

\* Three Trackpoints with time fields have been processed: start_time is the
\* first one's timestamp and end_time the third one's.
C10_Witness ==
    /\ pc = "loop" /\ idx = 3
    /\ \A k \in 1..3 : HasTime(recs[k])
    /\ TimeAt(1) # TimeAt(2) /\ TimeAt(1) # TimeAt(3) /\ TimeAt(2) # TimeAt(3)
    /\ start_time = TimeAt(1) /\ end_time = TimeAt(3)

====
